---- MODULE Spec2Model ----
(***************************************************************************)
(* A model of ChattyAssistant (src/ChattyAssistant.py) and of the tool     *)
(* signatures it dispatches to (src/tools.py): the dialogue loop of        *)
(* ChattyAssistant.run, the transport with its retries, the interpreter    *)
(* of the model's replies, the tool dispatcher and the local commands.     *)
(*                                                                         *)
(* Texts are sequences of tokens (records), lines typed by the user are    *)
(* sequences of characters, temperatures are integers in hundredths.       *)
(***************************************************************************)
EXTENDS Integers, Sequences, FiniteSets, TLC

\* Bound of the model: no chat input is taken once the transcript has this
\* many turns.
MaxTurns == 2

(***************************************************************************)
(* Python values                                                           *)
(***************************************************************************)

\* A JSON value as json.loads returns it. shape is the Python type; nonempty
\* decides its truth value; the other fields are the entries of a mapping
\* ("<absent>" when the key is missing).
Absent == "<absent>"

JsonValue(shape, nonempty, type, tool_name, arguments, query) ==
    [shape |-> shape, nonempty |-> nonempty, type |-> type,
     tool_name |-> tool_name, arguments |-> arguments, query |-> query]

\* The value under the key "arguments": its Python type, and for a mapping
\* its keys and the value under "action".
Args(shape, keys, action) == [shape |-> shape, keys |-> keys, action |-> action]

NoArgs == Args("absent", {}, Absent)

NoJson == JsonValue("none", FALSE, Absent, Absent, NoArgs, Absent)

\* One token of a text: a word, a blank, a fence marker or a JSON document.
Tok(k) == [k |-> k, j |-> NoJson]
JsonTok(v) == [k |-> "json", j |-> v]

Word == Tok("word")
Code1 == Tok("code1")
Code2 == Tok("code2")
Blank == Tok(" ")
Fence == Tok("fence")
FencePython == Tok("fence:python")
FenceJson == Tok("fence:json")

\* The None of Python where a text is expected: a value no text is equal to.
None == << Tok("<None>") >>


(***************************************************************************)
(* Text operations of the standard library, on token sequences             *)
(***************************************************************************)

\* str.split(sep): the parts between the tokens whose kind is in seps.
RECURSIVE Split(_, _)
Split(text, seps) ==
    IF text = << >> THEN << << >> >>
    ELSE LET rest == Split(Tail(text), seps)
         IN  IF Head(text).k \in seps
             THEN << << >> >> \o rest
             ELSE << << Head(text) >> \o rest[1] >> \o Tail(rest)

RECURSIVE LStrip(_, _)
LStrip(s, blank) ==
    IF s # << >> /\ Head(s) = blank THEN LStrip(Tail(s), blank) ELSE s

RECURSIVE RStrip(_, _)
RStrip(s, blank) ==
    IF s # << >> /\ s[Len(s)] = blank
    THEN RStrip(SubSeq(s, 1, Len(s) - 1), blank)
    ELSE s

\* str.strip() of a text
Strip(text) == LStrip(RStrip(text, Blank), Blank)

BackquoteKinds == {"fence", "fence:python", "fence:json"}

\* text.split(marker)[1].split(three backquotes)[0].strip(), the expression
\* both extractors use; ok is FALSE where the code gets an IndexError.
FencedPart(text, marker) ==
    LET parts == Split(text, {marker})
    IN  IF Len(parts) < 2
        THEN [ok |-> FALSE, text |-> << >>]
        ELSE [ok |-> TRUE, text |-> Strip(Split(parts[2], BackquoteKinds)[1])]

\* json.loads: a text decodes when it is one JSON document, blanks around
\* it allowed; ok is FALSE where json.loads raises JSONDecodeError.
JNone == JsonValue("null", FALSE, Absent, Absent, NoArgs, Absent)

json_loads(text) ==
    LET s == Strip(text)
    IN  IF Len(s) = 1 /\ s[1].k = "json"
        THEN [ok |-> TRUE, v |-> s[1].j]
        ELSE [ok |-> FALSE, v |-> JNone]

(***************************************************************************)
(* Response interpreter                                                    *)
(***************************************************************************)

\* ChattyAssistant._parse_llm_json: the decoded reply, JNone (the None of
\* Python) when neither the text nor its json-fenced part decodes.
parse_llm_json(response_text) ==
    LET direct == json_loads(response_text)
    IN  IF direct.ok THEN direct.v
        ELSE LET part == FencedPart(response_text, "fence:json")
             IN  IF ~part.ok THEN JNone
                 ELSE LET inner == json_loads(part.text)
                      IN  IF inner.ok THEN inner.v ELSE JNone

\* ChattyAssistant._extract_code: raised is TRUE where text is None (the
\* AttributeError of None.split, which the method does not catch); the
\* IndexError of a text without a python fence gives None.
extract_code(text) ==
    IF text = None THEN [raised |-> TRUE, code |-> None]
    ELSE LET part == FencedPart(text, "fence:python")
         IN  [raised |-> FALSE, code |-> IF part.ok THEN part.text ELSE None]

\* The truth value Python gives a retained fragment (if self.last_generated_code).
Truthy(code) == code # None /\ code # << >>

(***************************************************************************)
(* Tools (src/tools.py) and the dispatcher                                 *)
(***************************************************************************)

Txt(k) == << Tok(k) >>

\* self.tools: the registry built by the constructor.
tools == {"google_search", "file_tool"}

\* The keyword parameters of each tool's run(): those it requires and those
\* it accepts.
RequiredParams(tool_name) ==
    IF tool_name = "google_search" THEN {"query"} ELSE {"action", "filename"}

AcceptedParams(tool_name) ==
    IF tool_name = "google_search" THEN {"query"}
    ELSE {"action", "filename", "content"}

\* What a capability does once its parameters are bound: it returns its
\* text ("ok"; GoogleSearchTool.run and FileTool.run turn the faults of the
\* provider and of the filesystem into texts themselves) or it raises.
EnvOutcomes == {"ok", "raise"}

\* tool_instance.run(**args): raised is TRUE where the call raises, which is
\* where args is no mapping, where its keys do not fit the parameters of
\* run(), or where the capability itself raises.
tool_run(tool_name, args, env) ==
    IF \/ args.shape # "object"
       \/ ~(RequiredParams(tool_name) \subseteq args.keys)
       \/ ~(args.keys \subseteq AcceptedParams(tool_name))
       \/ env = "raise"
    THEN [raised |-> TRUE, text |-> None]
    ELSE [raised |-> FALSE, text |-> Txt(tool_name)]

\* A list or a mapping cannot be looked up in a dict: tool_name in self.tools
\* raises TypeError for it.
Hashable(tool_name) == tool_name \notin {"<list>", "<object>"}

\* ChattyAssistant._execute_tool_call: raised is TRUE where the method
\* raises to its caller; invoked tells whether a capability was called.
execute_tool_call(tool_name, args, env) ==
    IF ~Hashable(tool_name)
    THEN [raised |-> TRUE, invoked |-> FALSE, text |-> None]
    ELSE IF tool_name \in tools
    THEN LET r == tool_run(tool_name, args, env)
         IN  [raised |-> FALSE, invoked |-> TRUE,
              text |-> IF r.raised THEN Txt("tool:error") ELSE r.text]
    ELSE [raised |-> FALSE, invoked |-> FALSE, text |-> Txt("tool:not_recognized")]

(***************************************************************************)
(* Transport                                                               *)
(***************************************************************************)

max_retries == 3

RECURSIVE Pow2(_)
Pow2(n) == IF n = 0 THEN 1 ELSE 2 * Pow2(n - 1)

\* What _send_to_ollama returns: a decoded reply for format json, a text
\* otherwise; JNone and None are the None of Python.
Result(json, text) == [json |-> json, text |-> text]

NoResult == Result(JNone, None)

\* One call of _send_to_ollama: attempt is the loop variable, log the
\* outcome of each attempt made, delays the seconds slept so far.
NewSend(format_as, temperature) ==
    [format |-> format_as, temperature |-> temperature, attempt |-> 0,
     log |-> << >>, delays |-> << >>, status |-> "running", result |-> NoResult]

IdleSend == [NewSend("json", 0) EXCEPT !.status = "idle"]

\* The attempt got a 2xx response with this body.
on_response(s, body) ==
    [s EXCEPT !.log = Append(@, "ok"),
              !.status = "ok",
              !.result = IF s.format = "json"
                         THEN Result(parse_llm_json(body), None)
                         ELSE Result(JNone, body)]

\* A loop that runs once more than max_retries.
on_client_error_once_more(s) ==
    [s EXCEPT !.log = Append(@, "client_error"),
              !.delays = Append(@, Pow2(s.attempt)),
              !.attempt = @ + 1,
              !.status = IF s.attempt + 1 <= max_retries THEN "running"
                         ELSE "unreachable"]

\* A handler that retries after any exception.
on_exception_retry(s) ==
    [s EXCEPT !.log = Append(@, "unexpected"),
              !.delays = Append(@, Pow2(s.attempt)),
              !.attempt = @ + 1,
              !.status = IF s.attempt + 1 < max_retries THEN "running"
                         ELSE "unreachable"]

\* except aiohttp.ClientError: log, sleep 2 ** attempt, next attempt; after
\* the last attempt the loop ends and the method returns None.
on_client_error(s) ==
    [s EXCEPT !.log = Append(@, "client_error"),
              !.delays = Append(@, Pow2(s.attempt)),
              !.attempt = @ + 1,
              !.status = IF s.attempt + 1 < max_retries THEN "running"
                         ELSE "unreachable"]

\* except Exception: log and return None.
on_exception(s) ==
    [s EXCEPT !.log = Append(@, "unexpected"), !.status = "unexpected"]

\* The network during one call: the first errors attempts fail with a
\* ClientError, every later one ends as last (a body, or Unexpected).
Unexpected == << Tok("<exception>") >>

Run(errors, last) == [errors |-> errors, last |-> last]

\* _send_to_ollama as a whole: the call s carried to its end under run.
RECURSIVE send_to_ollama(_, _)
send_to_ollama(s, run) ==
    IF s.status # "running" THEN s
    ELSE send_to_ollama(
             IF Len(s.log) < run.errors THEN on_client_error(s)
             ELSE IF run.last = Unexpected THEN on_exception(s)
             ELSE on_response(s, run.last),
             run)

(***************************************************************************)
(* Lines typed by the user: sequences of characters                        *)
(***************************************************************************)

UpperCase == << "A", "B", "C", "D", "E", "F", "G", "H", "I", "J", "K", "L", "M",
                "N", "O", "P", "Q", "R", "S", "T", "U", "V", "W", "X", "Y", "Z" >>

LowerCase == << "a", "b", "c", "d", "e", "f", "g", "h", "i", "j", "k", "l", "m",
                "n", "o", "p", "q", "r", "s", "t", "u", "v", "w", "x", "y", "z" >>

LowerOf ==
    [ c \in { UpperCase[n] : n \in DOMAIN UpperCase } |->
        LowerCase[CHOOSE n \in DOMAIN UpperCase : UpperCase[n] = c] ]

\* A comparison that leaves the case of the line as typed.
lower_not_applied(line) == line

\* str.lower()
lower(line) ==
    [ i \in DOMAIN line |->
        IF line[i] \in DOMAIN LowerOf THEN LowerOf[line[i]] ELSE line[i] ]

\* str.strip() of a line
strip(line) == LStrip(RStrip(line, " "), " ")

\* The keys of self.commands, and the handler each one names.
cmd_exit == << "e", "x", "i", "t" >>
cmd_quit == << "q", "u", "i", "t" >>
cmd_settings == << "s", "e", "t", "t", "i", "n", "g", "s" >>
cmd_help == << "h", "e", "l", "p" >>
cmd_save == << "s", "a", "v", "e" >>
cmd_clear_history ==
    << "c", "l", "e", "a", "r", " ", "h", "i", "s", "t", "o", "r", "y" >>
cmd_run_code == << "r", "u", "n", " ", "c", "o", "d", "e" >>

commands(clean_input) ==
    CASE clean_input = cmd_exit -> "_exit"
      [] clean_input = cmd_quit -> "_exit"
      [] clean_input = cmd_settings -> "manage_settings"
      [] clean_input = cmd_help -> "_show_help"
      [] clean_input = cmd_save -> "_save_history"
      [] clean_input = cmd_clear_history -> "_clear_history"
      [] clean_input = cmd_run_code -> "_run_last_code"
      [] OTHER -> "<chat>"

\* run, lines 257-261: the handler of a line, "<chat>" when it is no command.
handler_of(user_input) == commands(lower(strip(user_input)))

\* confirm = input(...).lower(); confirm.startswith('y')
confirmed(answer) == answer # << >> /\ lower(answer)[1] = "y"

\* float() of a line, in hundredths: the digits d, d.d and d.dd convert, any
\* other line raises ValueError (ok is FALSE).
Digits == << "0", "1", "2", "3", "4", "5", "6", "7", "8", "9" >>

IsDigit(c) == \E n \in DOMAIN Digits : Digits[n] = c

DigitValue(c) == (CHOOSE n \in DOMAIN Digits : Digits[n] = c) - 1

float(line) ==
    LET t == strip(line)
    IN  CASE Len(t) = 1 /\ IsDigit(t[1]) ->
                [ok |-> TRUE, v |-> 100 * DigitValue(t[1])]
          [] Len(t) = 3 /\ IsDigit(t[1]) /\ t[2] = "." /\ IsDigit(t[3]) ->
                [ok |-> TRUE, v |-> 100 * DigitValue(t[1]) + 10 * DigitValue(t[3])]
          [] Len(t) = 4 /\ IsDigit(t[1]) /\ t[2] = "." /\ IsDigit(t[3])
                /\ IsDigit(t[4]) ->
                [ok |-> TRUE, v |-> 100 * DigitValue(t[1]) + 10 * DigitValue(t[3])
                                     + DigitValue(t[4])]
          [] OTHER -> [ok |-> FALSE, v |-> 0]

\* A test of the lower limit alone.
in_range_lower_only(v) == 10 <= v

\* 0.1 <= value <= 1.0
in_range(v) == 10 <= v /\ v <= 100

\* manage_settings, lines 234 and 237: the parameter after one accepted line.
updated_temperature(old, v) == IF in_range(v) THEN v ELSE old

(***************************************************************************)
(* What the backend and the user can send                                  *)
(***************************************************************************)

Obj(type, tool_name, arguments, query) ==
    JsonValue("object", TRUE, type, tool_name, arguments, query)

EmptyObj == JsonValue("object", FALSE, Absent, Absent, NoArgs, Absent)
Array(nonempty) == JsonValue("array", nonempty, Absent, Absent, NoArgs, Absent)

ToolNames == {"google_search", "file_tool", "nosuch", Absent, "<number>", "<list>"}

ArgValues ==
    { NoArgs, Args("null", {}, Absent), Args("array", {}, Absent),
      Args("object", {}, Absent),
      Args("object", {"query"}, Absent),
      Args("object", {"query", "extra"}, Absent),
      Args("object", {"action", "filename"}, "read"),
      Args("object", {"action", "filename"}, "write"),
      Args("object", {"action", "filename", "content"}, "write"),
      Args("object", {"action", "filename"}, "bogus") }

Replies ==
    { Obj("TOOL_USE", n, a, Absent) : n \in tools, a \in ArgValues }
    \cup { Obj("TOOL_USE", n, Args("object", {"query"}, Absent), Absent) :
             n \in ToolNames }
    \cup { Obj(t, Absent, NoArgs, q) :
             t \in {"CODE", "CONVERSATION", "FOO", "", Absent}, q \in {"q", Absent} }
    \cup { EmptyObj, Array(TRUE), Array(FALSE), JNone }

\* Bodies of a 2xx response to a request for format json.
JsonBodies ==
    { << JsonTok(v) >> : v \in Replies }
    \cup { << Word, FenceJson, Blank, JsonTok(v), Blank, Fence, Word >> :
             v \in { Obj("CODE", Absent, NoArgs, "q"), EmptyObj,
                     Obj("TOOL_USE", "nosuch", NoArgs, Absent) } }
    \cup { << Word >>, << FenceJson, Word, Fence >>, << >>,
           << JsonTok(EmptyObj), Word >> }

\* Bodies of a 2xx response to a request for format text.
TextBodies ==
    { << Word >>,
      << Word, FencePython, Blank, Code1, Blank, Fence, Word >>,
      << FencePython, Code2 >> }

Bodies(format_as) == IF format_as = "json" THEN JsonBodies ELSE TextBodies

\* Bound of the model: the attempts of one call that can fail in the network.
MaxErrors == 3

JsonRuns ==
    { Run(k, last) : k \in 0..MaxErrors, last \in JsonBodies \cup {Unexpected} }

TextRuns ==
    { Run(k, last) : k \in 0..MaxErrors, last \in TextBodies \cup {Unexpected} }

Lines ==
    { cmd_exit, << "E", "X", "I", "T" >>, << " ", "Q", "u", "i", "t", " " >>,
      cmd_settings, cmd_help, << "H", "e", "l", "p" >>, cmd_save,
      cmd_clear_history, cmd_run_code,
      << "R", "u", "n", " ", "c", "o", "d", "e", " " >>,
      << "h", "i" >>, << "e", "x", "i", "t", "s" >> }

Answers ==
    { << "y", "e", "s" >>, << "Y" >>, << "n", "o" >>, << >>, << "o", "k", "a", "y" >> }

NumberLines ==
    { << "0", ".", "1" >>, << " ", "1", ".", "0" >>, << "0", ".", "0", "9" >>,
      << "1", ".", "0", "1" >>, << "a", "b", "c" >> }

(***************************************************************************)
(* State                                                                   *)
(***************************************************************************)

VARIABLES
    chat_history,               \* self.chat_history, the transcript
    last_generated_code,        \* self.last_generated_code
    TEMPERATURE_CONVERSATION,   \* Config.TEMPERATURE_CONVERSATION, hundredths
    TEMPERATURE_SEARCH,         \* Config.TEMPERATURE_SEARCH, hundredths
    history_file,               \* chat_history.json
    pc,                         \* where run() is suspended
    action,                     \* the local action of run() (line 276)
    send,                       \* a call of _send_to_ollama, attempt by attempt
    iter,                       \* what the current loop iteration has done so far
    exit                        \* how the process ended

vars == << chat_history, last_generated_code, TEMPERATURE_CONVERSATION,
           TEMPERATURE_SEARCH, history_file, pc, action, send, iter, exit >>

Turn(role, content) == [role |-> role, content |-> content]

SystemTurn == Turn("system", Txt("SYSTEM_PROMPT"))

\* chat_history.json: missing, a JSON list of turns, a JSON document that is
\* no list (a number), or no JSON at all.
File(state, turns) == [state |-> state, turns |-> turns]

NoFile == File("absent", << >>)

StartFiles ==
    { NoFile, File("list", << Turn("assistant", << Word >>) >>),
      File("number", << >>), File("corrupt", << >>) }

\* Config.load_settings(): both temperatures start within [0.1, 1.0].
StartTemperature == 10

\* The record of one loop iteration.
NewIter(handler) ==
    [handler |-> handler, class |-> "none",
     before |-> chat_history, code_before |-> last_generated_code,
     sends |-> 0, dispatched |-> FALSE, dispatch_raised |-> FALSE,
     invoked |-> FALSE, tool_text |-> None, completion |-> None,
     requests |-> << >>, msgs |-> {}, raised |-> FALSE, done |-> FALSE,
     answer |-> "none", prompts |-> 0]

\* The format and the temperature a call was made with.
Request(s) == [format |-> s.format, temperature |-> s.temperature]

Finished(it) == [it EXCEPT !.done = TRUE]

Init ==
    /\ chat_history = << SystemTurn >>
    /\ last_generated_code = None
    /\ TEMPERATURE_CONVERSATION = StartTemperature
    /\ TEMPERATURE_SEARCH = StartTemperature
    /\ history_file \in StartFiles
    /\ pc = "start"
    /\ action = Absent
    /\ send = IdleSend
    /\ iter = Finished(NewIter("<none>"))
    /\ exit = [cause |-> "none", status |-> 0, saved |-> FALSE]

(***************************************************************************)
(* History: load, save, clear                                              *)
(***************************************************************************)

\* A load that assigns what the file holds instead of extending with it.
load_history_assigned(history, file) ==
    CASE file.state = "list" -> [raised |-> FALSE, history |-> file.turns]
      [] file.state = "number" -> [raised |-> TRUE, history |-> history]
      [] OTHER -> [raised |-> FALSE, history |-> history]

\* _load_history: the transcript after it; raised is TRUE where json.load
\* gives a value list.extend cannot iterate (TypeError, not caught).
load_history(history, file) ==
    CASE file.state = "list" -> [raised |-> FALSE, history |-> history \o file.turns]
      [] file.state = "number" -> [raised |-> TRUE, history |-> history]
      [] OTHER -> [raised |-> FALSE, history |-> history]

\* A save that writes the system turn as well.
save_history_all(history, file, io_ok) ==
    IF io_ok THEN File("list", history) ELSE file

\* _save_history: the file after it; io_ok is FALSE where open() raises IOError.
save_history(history, file, io_ok) ==
    IF io_ok THEN File("list", Tail(history)) ELSE file

\* A reset that keeps the last turn instead of the first.
cleared_history_last(history) == << history[Len(history)] >>

\* A clear that removes the file and forgets the reset of the transcript.
cleared_history_kept(history) == history

\* _clear_history, line 175
cleared_history(history) == << history[1] >>

\* run, lines 246-252
LoadHistory ==
    /\ pc = "start"
    /\ LET r == load_history(chat_history, history_file)
       IN  /\ chat_history' = r.history
           /\ pc' = IF r.raised THEN "crashed" ELSE "input"
           /\ exit' = IF r.raised
                      THEN [cause |-> "crash", status |-> 1, saved |-> FALSE]
                      ELSE exit
    /\ UNCHANGED << last_generated_code, TEMPERATURE_CONVERSATION,
                    TEMPERATURE_SEARCH, history_file, action, send, iter >>

(***************************************************************************)
(* The loop of run(): reading a line and the local commands                *)
(***************************************************************************)

Settings == << TEMPERATURE_CONVERSATION, TEMPERATURE_SEARCH >>

\* A loop without the handler of line 313: the exception ends run().
ReadFault_uncaught ==
    /\ pc = "input"
    /\ pc' = "crashed"
    /\ exit' = [cause |-> "crash", status |-> 1, saved |-> FALSE]
    /\ iter' = [Finished(NewIter("<input>")) EXCEPT !.raised = TRUE]
    /\ UNCHANGED << chat_history, last_generated_code, TEMPERATURE_CONVERSATION,
                    TEMPERATURE_SEARCH, history_file, action, send >>

\* input() raises (end of input): caught at line 313, the loop goes on.
ReadFault ==
    /\ pc = "input"
    /\ iter' = [Finished(NewIter("<input>")) EXCEPT !.raised = TRUE]
    /\ UNCHANGED << chat_history, last_generated_code, Settings, history_file,
                    pc, action, send, exit >>

\* help
ShowHelp(line) ==
    /\ pc = "input"
    /\ handler_of(line) = "_show_help"
    /\ iter' = [Finished(NewIter("_show_help")) EXCEPT !.msgs = {"help"}]
    /\ UNCHANGED << chat_history, last_generated_code, Settings, history_file,
                    pc, action, send, exit >>

\* save
SaveHistory(line, io_ok) ==
    /\ pc = "input"
    /\ handler_of(line) = "_save_history"
    /\ history_file' = save_history(chat_history, history_file, io_ok)
    /\ iter' = [Finished(NewIter("_save_history")) EXCEPT
                   !.msgs = IF io_ok THEN {"saved"} ELSE {}]
    /\ UNCHANGED << chat_history, last_generated_code, Settings, pc, action,
                    send, exit >>

\* run code: _run_last_code; _run_code always gives a text.
RunLastCode(line) ==
    /\ pc = "input"
    /\ handler_of(line) = "_run_last_code"
    /\ iter' = [Finished(NewIter("_run_last_code")) EXCEPT
                   !.msgs = IF Truthy(last_generated_code)
                            THEN {"code_output"} ELSE {"no_code"}]
    /\ UNCHANGED << chat_history, last_generated_code, Settings, history_file,
                    pc, action, send, exit >>

\* exit, quit, clear history, settings: the handler asks for a confirmation.
AskConfirmation(line) ==
    /\ pc = "input"
    /\ handler_of(line) \in {"_exit", "_clear_history", "manage_settings"}
    /\ pc' = handler_of(line)
    /\ iter' = NewIter(handler_of(line))
    /\ UNCHANGED << chat_history, last_generated_code, Settings, history_file,
                    action, send, exit >>

\* _exit after the answer
ExitAnswer(answer, io_ok) ==
    /\ pc = "_exit"
    /\ IF confirmed(answer)
       THEN /\ history_file' = save_history(chat_history, history_file, io_ok)
            /\ pc' = "done"
            /\ exit' = [cause |-> "exit", status |-> 0, saved |-> TRUE]
            /\ iter' = [iter EXCEPT !.answer = "yes", !.msgs = {"goodbye"}]
       ELSE /\ pc' = "input"
            /\ iter' = [Finished(iter) EXCEPT !.answer = "no"]
            /\ UNCHANGED << history_file, exit >>
    /\ UNCHANGED << chat_history, last_generated_code, Settings, action, send >>

\* _clear_history after the answer; remove is what os.remove does: "ok",
\* "missing" (FileNotFoundError, caught) or "denied" (another OSError, which
\* reaches line 313; taken to happen only to a file the session found at
\* startup and has not written since).
ClearAnswer(answer, remove) ==
    /\ pc = "_clear_history"
    /\ remove = "missing" <=> history_file.state = "absent"
    /\ remove = "denied" => history_file \in StartFiles
    /\ pc' = "input"
    /\ IF confirmed(answer)
       THEN /\ chat_history' = cleared_history(chat_history)
            /\ history_file' = IF remove = "ok" THEN NoFile ELSE history_file
            /\ iter' = [Finished(iter) EXCEPT
                           !.answer = "yes",
                           !.raised = (remove = "denied"),
                           !.msgs = IF remove = "denied" THEN {} ELSE {"cleared"}]
       ELSE /\ iter' = [Finished(iter) EXCEPT !.answer = "no"]
            /\ UNCHANGED << chat_history, history_file >>
    /\ UNCHANGED << last_generated_code, Settings, action, send, exit >>

\* manage_settings after the answer to "Change settings?"
SettingsAnswer(answer) ==
    /\ pc = "manage_settings"
    /\ IF confirmed(answer)
       THEN /\ pc' = "new_conv_temp"
            /\ iter' = [iter EXCEPT !.answer = "yes"]
       ELSE /\ pc' = "input"
            /\ iter' = [Finished(iter) EXCEPT !.answer = "no"]
    /\ UNCHANGED << chat_history, last_generated_code, Settings, history_file,
                    action, send, exit >>

\* manage_settings, lines 233-234 (and 241-242 when float() raises)
NewConversationTemp(line) ==
    /\ pc = "new_conv_temp"
    /\ LET f == float(line)
           it == [iter EXCEPT !.prompts = 1]
       IN  IF f.ok
           THEN /\ TEMPERATURE_CONVERSATION' =
                       updated_temperature(TEMPERATURE_CONVERSATION, f.v)
                /\ pc' = "new_search_temp"
                /\ iter' = it
           ELSE /\ pc' = "input"
                /\ iter' = [Finished(it) EXCEPT !.msgs = {"invalid_input"}]
                /\ UNCHANGED TEMPERATURE_CONVERSATION
    /\ UNCHANGED << chat_history, last_generated_code, TEMPERATURE_SEARCH,
                    history_file, action, send, exit >>

\* manage_settings, lines 236-240 (and 241-242 when float() raises)
NewSearchTemp(line) ==
    /\ pc = "new_search_temp"
    /\ LET f == float(line)
           it == [iter EXCEPT !.prompts = 2]
       IN  IF f.ok
           THEN /\ TEMPERATURE_SEARCH' = updated_temperature(TEMPERATURE_SEARCH, f.v)
                /\ iter' = [Finished(it) EXCEPT !.msgs = {"settings_updated"}]
           ELSE /\ iter' = [Finished(it) EXCEPT !.msgs = {"invalid_input"}]
                /\ UNCHANGED TEMPERATURE_SEARCH
    /\ pc' = "input"
    /\ UNCHANGED << chat_history, last_generated_code, TEMPERATURE_CONVERSATION,
                    history_file, action, send, exit >>

\* asyncio.CancelledError at a suspension point: lines 310-312.
Suspended == pc \notin {"start", "done", "crashed"}

Cancel ==
    /\ Suspended
    /\ pc' = "done"
    /\ exit' = [cause |-> "cancel", status |-> 0, saved |-> FALSE]
    /\ iter' = [NewIter("<cancelled>") EXCEPT !.msgs = {"goodbye"}]
    /\ action' = Absent
    /\ UNCHANGED << chat_history, last_generated_code, Settings, history_file,
                    send >>

(***************************************************************************)
(* The loop of run(): classification, tool use, direct reply               *)
(***************************************************************************)

\* What the classification request came back with, named as the
\* specification names the cases.
reply_class(s) ==
    LET r == s.result.json
    IN  CASE s.status # "ok" -> "transport_failed"
          [] r = JNone -> "undecodable"
          [] r.shape # "object" -> "not_mapping"
          [] r.type \in {Absent, ""} -> "no_type"
          [] r.type \in {"TOOL_USE", "CODE", "CONVERSATION"} -> r.type
          [] OTHER -> "unrecognized"

\* A test of the reply alone, without its type.
type_check_reply_only(r) ==
    CASE r = JNone \/ ~r.nonempty -> "retry"
      [] r.shape # "object" -> "raise"
      [] OTHER -> "go"

\* run, line 272: if not response or not response.get("type"). "raise" is
\* the AttributeError of a true value that has no get().
type_check(r) ==
    CASE r = JNone \/ ~r.nonempty -> "retry"
      [] r.shape # "object" -> "raise"
      [] r.type \in {Absent, ""} -> "retry"
      [] OTHER -> "go"

\* run, line 279 against the else of line 298
branch_of(type) == IF type = "TOOL_USE" THEN "tool" ELSE "direct"

\* run, line 281: response.get("arguments", {})
get_arguments(r) ==
    IF r.arguments.shape = "absent" THEN Args("object", {}, Absent) ELSE r.arguments

\* An assignment made whatever the type of the reply.
pending_code_any_type(type, old, response_text) ==
    extract_code(response_text).code

\* run, lines 305-306: the retained fragment after a reply to a request
\* classified type.
pending_code(type, old, response_text) ==
    IF type = "CODE" THEN extract_code(response_text).code ELSE old

\* What a call that ended as s printed (line 85).
Printed(s) == IF s.status = "unreachable" THEN {"network_error"} ELSE {}

\* run, lines 256-270: a line that is no command; the classification request
\* is sent.
ChatInput(line) ==
    /\ pc = "input"
    /\ handler_of(line) = "<chat>"
    /\ Len(chat_history) < MaxTurns
    /\ pc' = "classify"
    /\ iter' = [NewIter("<chat>") EXCEPT !.sends = 1]
    /\ UNCHANGED << chat_history, last_generated_code, Settings, history_file,
                    action, send, exit >>

\* run, lines 272-292: the classification request returns under run; for a
\* tool use the tool is called, its output appended and the summarization
\* request sent; otherwise the direct request is sent.
Classified(run, env) ==
    /\ pc = "classify"
    /\ LET s == send_to_ollama(NewSend("json", TEMPERATURE_CONVERSATION), run)
           r == s.result.json
           it == [iter EXCEPT !.class = reply_class(s), !.msgs = Printed(s),
                              !.requests = << Request(s) >>]
           chk == type_check(r)
           x == execute_tool_call(r.tool_name, get_arguments(r), env)
           called == [it EXCEPT !.dispatched = TRUE, !.dispatch_raised = x.raised,
                                !.invoked = x.invoked, !.tool_text = x.text]
       IN  CASE chk = "raise" ->
                  /\ pc' = "input"
                  /\ iter' = [Finished(it) EXCEPT !.raised = TRUE]
                  /\ UNCHANGED << chat_history, action >>
             [] chk = "retry" ->
                  /\ pc' = "input"
                  /\ iter' = [Finished(it) EXCEPT !.msgs = @ \cup {"try_again"}]
                  /\ UNCHANGED << chat_history, action >>
             [] chk = "go" /\ branch_of(r.type) = "tool" /\ x.raised ->
                  /\ pc' = "input"
                  /\ iter' = [Finished(called) EXCEPT !.raised = TRUE]
                  /\ UNCHANGED << chat_history, action >>
             [] chk = "go" /\ branch_of(r.type) = "tool" /\ ~x.raised ->
                  /\ chat_history' = Append(chat_history, Turn("tool_output", x.text))
                  /\ pc' = "summarize"
                  /\ iter' = [called EXCEPT !.sends = @ + 1]
                  /\ action' = r.type
             [] OTHER ->
                  /\ pc' = "direct"
                  /\ iter' = [it EXCEPT !.sends = @ + 1]
                  /\ action' = r.type
                  /\ UNCHANGED chat_history
    /\ UNCHANGED << last_generated_code, Settings, history_file, send, exit >>

\* run, lines 288-295: the summarization request (text, TEMPERATURE_SEARCH)
\* returns under run.
Summarized(run) ==
    /\ pc = "summarize"
    /\ LET s == send_to_ollama(NewSend("text", TEMPERATURE_SEARCH), run)
       IN  /\ chat_history' = Append(chat_history, Turn("assistant", s.result.text))
           /\ iter' = [Finished(iter) EXCEPT !.completion = s.result.text,
                                             !.requests = Append(@, Request(s)),
                                             !.msgs = Printed(s) \cup {"reply"}]
    /\ pc' = "input"
    /\ action' = Absent
    /\ UNCHANGED << last_generated_code, Settings, history_file, send, exit >>

\* run, lines 299-308: the direct request (text, TEMPERATURE_SEARCH) returns
\* under run.
Replied(run) ==
    /\ pc = "direct"
    /\ LET s == send_to_ollama(NewSend("text", TEMPERATURE_SEARCH), run)
           response_text == s.result.text
           faulted == action = "CODE" /\ extract_code(response_text).raised
           code == IF faulted THEN last_generated_code
                   ELSE pending_code(action, last_generated_code, response_text)
       IN  /\ chat_history' = Append(chat_history, Turn("assistant", response_text))
           /\ last_generated_code' = code
           /\ iter' = [Finished(iter) EXCEPT
                          !.completion = response_text,
                          !.requests = Append(@, Request(s)),
                          !.raised = faulted,
                          !.msgs = Printed(s) \cup {"reply"}
                                   \cup (IF action = "CODE" /\ ~faulted
                                            /\ Truthy(code)
                                         THEN {"type_run_code"} ELSE {})]
    /\ pc' = "input"
    /\ action' = Absent
    /\ UNCHANGED << Settings, history_file, send, exit >>

Next ==
    \/ LoadHistory
    \/ ReadFault
    \/ \E line \in Lines : ShowHelp(line)
    \/ \E line \in Lines, io_ok \in BOOLEAN : SaveHistory(line, io_ok)
    \/ \E line \in Lines : RunLastCode(line)
    \/ \E line \in Lines : AskConfirmation(line)
    \/ \E answer \in Answers, io_ok \in BOOLEAN : ExitAnswer(answer, io_ok)
    \/ \E answer \in Answers, remove \in {"ok", "missing", "denied"} :
          ClearAnswer(answer, remove)
    \/ \E answer \in Answers : SettingsAnswer(answer)
    \/ \E line \in NumberLines : NewConversationTemp(line)
    \/ \E line \in NumberLines : NewSearchTemp(line)
    \/ Cancel
    \/ \E line \in Lines : ChatInput(line)
    \/ \E run \in JsonRuns, env \in EnvOutcomes : Classified(run, env)
    \/ \E run \in TextRuns : Summarized(run)
    \/ \E run \in TextRuns : Replied(run)

Spec == Init /\ [][Next]_vars

(***************************************************************************)
(* The transport alone, attempt by attempt                                 *)
(***************************************************************************)

Untouched ==
    UNCHANGED << chat_history, last_generated_code, Settings, history_file, pc,
                 action, iter, exit >>

\* _send_to_ollama is called (lines 60-68).
Call(format_as, temperature) ==
    /\ send.status # "running"
    /\ send' = NewSend(format_as, temperature)
    /\ Untouched

\* lines 72-78: the attempt gets a 2xx response.
AttemptResponse(body) ==
    /\ send.status = "running"
    /\ body \in Bodies(send.format)
    /\ send' = on_response(send, body)
    /\ Untouched

\* lines 79-81: the attempt fails in the network.
AttemptClientError ==
    /\ send.status = "running"
    /\ send' = on_client_error(send)
    /\ Untouched

\* lines 82-84: the attempt fails in another way.
AttemptException ==
    /\ send.status = "running"
    /\ send' = on_exception(send)
    /\ Untouched

TransportNext ==
    \/ \E format_as \in {"json", "text"},
          temperature \in {TEMPERATURE_CONVERSATION, TEMPERATURE_SEARCH} :
          Call(format_as, temperature)
    \/ \E body \in JsonBodies \cup TextBodies : AttemptResponse(body)
    \/ AttemptClientError
    \/ AttemptException

TransportSpec == Init /\ [][TransportNext]_vars

(***************************************************************************)
(* Properties                                                              *)
(***************************************************************************)

\* The last loop iteration was a chat input and it has returned to the prompt.
ChatDone == iter.handler = "<chat>" /\ iter.done

\* C1: in every reachable state the transcript is non-empty and its first
\* turn is the system turn made by the constructor.
C1_SystemTurnFirst ==
    /\ Len(chat_history) >= 1
    /\ chat_history[1] = SystemTurn

\* C1, witness: a confirmed clear history has reset a longer transcript.
C1_Witness ==
    /\ iter.handler = "_clear_history" /\ iter.done /\ iter.answer = "yes"
    /\ Len(iter.before) > 1
    /\ chat_history = << SystemTurn >>

\* C2: every iteration classified as a tool use adds exactly two turns: the
\* tool_output turn with the dispatcher's result, in the transcript while
\* the summarization request (text, tool temperature) is out, then the
\* assistant turn with what that request returned.
C2_ToolUseAddsTwoTurns ==
    /\ pc = "summarize" =>
          chat_history = Append(iter.before, Turn("tool_output", iter.tool_text))
    /\ ChatDone /\ iter.class = "TOOL_USE" =>
          /\ iter.dispatched /\ ~iter.dispatch_raised
          /\ chat_history = iter.before \o << Turn("tool_output", iter.tool_text),
                                              Turn("assistant", iter.completion) >>
          /\ Len(iter.requests) = 2
          /\ iter.requests[2] = [format |-> "text", temperature |-> TEMPERATURE_SEARCH]

\* C3: a call whose attempts all fail in the network makes exactly 3
\* attempts and then returns None; no call makes a 4th attempt.
C3_ThreeAttemptsThenUnreachable ==
    /\ Len(send.log) <= 3
    /\ (/\ send.status \notin {"idle", "running"}
        /\ \A i \in DOMAIN send.log : send.log[i] = "client_error")
       => /\ Len(send.log) = 3
          /\ send.status = "unreachable"
          /\ send.result = NoResult

\* C3, witness: a call given up after its third failed attempt.
C3_Witness ==
    /\ send.status = "unreachable"
    /\ send.log = << "client_error", "client_error", "client_error" >>

\* C4: an attempt that fails with an unexpected exception is the last one of
\* its call, whichever attempt it is: the call returns None at once, with no
\* sleep after that attempt.
C4_NoRetryAfterUnexpected ==
    \A i \in DOMAIN send.log :
        send.log[i] = "unexpected" =>
            /\ i = Len(send.log)
            /\ send.status = "unexpected"
            /\ send.result = NoResult
            /\ Len(send.delays) = i - 1

\* C4, witness: the exception came in the third attempt.
C4_Witness ==
    /\ send.status = "unexpected"
    /\ send.log = << "client_error", "client_error", "unexpected" >>

\* The reply of a direct request is a text without a python fence.
NoFragment(text) == text # None /\ ~FencedPart(text, "fence:python").ok

\* C5: after a reply classified CODE that holds no python-fenced fragment
\* the retained fragment is the one from before the iteration.
C5_KeptWithoutFragment ==
    ChatDone /\ iter.class = "CODE" /\ NoFragment(iter.completion)
        => last_generated_code = iter.code_before

FailedClasses == {"transport_failed", "undecodable", "no_type"}

\* C6: when the classification fails (the transport fails, the reply does
\* not decode, or the decoded mapping has no type) the iteration shows the
\* try-again message, sends nothing more, calls no tool, leaves the
\* transcript and the retained fragment alone and is back at the prompt.
C6_FailedClassification ==
    iter.handler = "<chat>" /\ iter.class \in FailedClasses =>
        /\ iter.done /\ pc = "input"
        /\ "try_again" \in iter.msgs
        /\ iter.sends = 1
        /\ ~iter.dispatched
        /\ ~iter.raised
        /\ chat_history = iter.before
        /\ last_generated_code = iter.code_before

\* C6, witness: a decoded mapping without a type.
C6_Witness == ChatDone /\ iter.class = "no_type" /\ pc = "input"

\* C7: a decoded reply of an unrecognized shape (another type, or no
\* mapping) is no intent: no tool call, no further request, no turn, and
\* no exception out of the classification.
C7_UnrecognizedIsNoIntent ==
    iter.handler = "<chat>" /\ iter.class \in {"unrecognized", "not_mapping"} =>
        /\ iter.done
        /\ iter.sends = 1
        /\ ~iter.dispatched
        /\ ~iter.raised
        /\ chat_history = iter.before

\* C8: the dispatcher gives a text and never raises to run(), whatever the
\* tool name and the arguments; a name that is not registered gives the
\* not-recognized text and no capability is called.
C8_DispatcherNeverRaises ==
    iter.dispatched =>
        /\ ~iter.dispatch_raised
        /\ iter.tool_text # None
        /\ ~iter.invoked => iter.tool_text = Txt("tool:not_recognized")

\* What the claim gives a parameter after one line: the value of the line
\* when it is a number within [0.1, 1.0], the old value otherwise.
Accepted(old, line) ==
    IF float(line).ok /\ in_range(float(line).v) THEN float(line).v ELSE old

\* C9: in a confirmed settings update each line is taken on its own: the
\* first line, whatever it is, sets or keeps the conversation temperature
\* and the second prompt follows; the second line sets or keeps the search
\* temperature and leaves the conversation temperature alone.
C9_IndependentSettings ==
    [][ /\ (pc = "new_conv_temp" /\ pc' # "done") =>
              \E line \in NumberLines :
                  /\ pc' = "new_search_temp"
                  /\ TEMPERATURE_CONVERSATION' =
                         Accepted(TEMPERATURE_CONVERSATION, line)
                  /\ TEMPERATURE_SEARCH' = TEMPERATURE_SEARCH
        /\ (pc = "new_search_temp" /\ pc' # "done") =>
              \E line \in NumberLines :
                  /\ TEMPERATURE_SEARCH' = Accepted(TEMPERATURE_SEARCH, line)
                  /\ TEMPERATURE_CONVERSATION' = TEMPERATURE_CONVERSATION
      ]_vars

\* C10: a cancellation ends the process as a confirmed exit does: the
\* transcript is saved before the process ends with status 0.
C10_CancelSavesLikeExit ==
    exit.cause = "cancel" => exit.saved /\ exit.status = 0

\* C11: exit and quit end the process only from the confirmation prompt and
\* on an answer that confirms; on that step the transcript is left alone and
\* the file is written with the transcript without its system turn (left as
\* it was where the write fails) before the process ends with status 0; an
\* answer that declines leaves file and transcript alone and the loop is
\* back at the prompt.
C11_ExitOnlyConfirmedAndSaved ==
    [][ /\ (exit.cause = "none" /\ exit'.cause = "exit") =>
              /\ pc = "_exit" /\ iter.handler = "_exit"
              /\ iter'.answer = "yes"
              /\ pc' = "done"
              /\ exit'.saved /\ exit'.status = 0
              /\ chat_history' = chat_history
              /\ history_file' \in {File("list", Tail(chat_history)), history_file}
        /\ (pc = "_exit" /\ exit'.cause = "none") =>
              /\ pc' = "input"
              /\ iter'.answer = "no" /\ iter'.done
              /\ UNCHANGED << chat_history, history_file >>
      ]_vars

\* C11, witness: a confirmed exit has written a transcript of two turns as
\* a file of one turn.
C11_Witness ==
    /\ exit.cause = "exit" /\ pc = "done"
    /\ Len(chat_history) = 2
    /\ history_file = File("list", << chat_history[2] >>)

\* C12: an iteration in which an exception was raised is back at the prompt
\* with the process alive; the process ends only by a confirmed exit or by
\* the cancellation, and it crashes only before the first iteration.
C12_SessionSurvivesFaults ==
    /\ iter.raised => pc = "input" /\ iter.done /\ exit.cause = "none"
    /\ pc = "done" => exit.cause \in {"exit", "cancel"}
    /\ exit.cause = "exit" => iter.handler = "_exit" /\ iter.answer = "yes"
    /\ pc = "crashed" => iter.handler = "<none>"
    /\ exit.cause = "crash" <=> pc = "crashed"

\* C12, witness: the tool dispatch raised and the loop is at the prompt.
C12_Witness ==
    /\ iter.raised /\ iter.dispatch_raised
    /\ pc = "input" /\ exit.cause = "none"

\* C13: after clear history the transcript is the system turn alone when
\* the answer confirmed, whatever its length was and whether or not the
\* file was there, and it is what it was when the answer declined.
C13_ClearLeavesSystemTurn ==
    iter.handler = "_clear_history" /\ iter.done =>
        /\ iter.answer = "yes" => chat_history = << SystemTurn >>
        /\ iter.answer = "no" => chat_history = iter.before
        /\ iter.answer \in {"yes", "no"}

\* C13, witness: a transcript of three turns was cleared with no file there.
C13_Witness ==
    /\ iter.handler = "_clear_history" /\ iter.done /\ iter.answer = "yes"
    /\ Len(iter.before) = 3
    /\ history_file = NoFile
    /\ "cleared" \in iter.msgs
    /\ chat_history = << SystemTurn >>

\* The line is the command cmd but for the case of its letters.
EqualsIgnoringCase(line, cmd) ==
    /\ Len(line) = Len(cmd)
    /\ \A i \in DOMAIN line :
           \/ line[i] = cmd[i]
           \/ line[i] \in DOMAIN LowerOf /\ LowerOf[line[i]] = cmd[i]

CommandHandlers ==
    { << cmd_exit, "_exit" >>, << cmd_quit, "_exit" >>,
      << cmd_settings, "manage_settings" >>, << cmd_help, "_show_help" >>,
      << cmd_save, "_save_history" >>, << cmd_clear_history, "_clear_history" >>,
      << cmd_run_code, "_run_last_code" >> }

\* C14: a line that equals a command but for its case goes to the handler
\* of that command and not to the model, and an iteration run by a handler
\* makes no request and appends no turn.
C14_CommandsStayLocal ==
    /\ \A line \in Lines : \A c \in CommandHandlers :
           EqualsIgnoringCase(line, c[1]) => handler_of(line) = c[2]
    /\ iter.handler \in { c[2] : c \in CommandHandlers } =>
           /\ iter.sends = 0 /\ iter.requests = << >>
           /\ ~iter.dispatched
           /\ pc \notin {"classify", "summarize", "direct"}
           /\ IF iter.handler = "_clear_history"
              THEN Len(chat_history) <= Len(iter.before)
              ELSE chat_history = iter.before

\* C14, witness: EXIT in capitals was answered no on a transcript of two turns.
C14_Witness ==
    /\ handler_of(<< "E", "X", "I", "T" >>) = "_exit"
    /\ iter.handler = "_exit" /\ iter.done /\ iter.answer = "no"
    /\ Len(chat_history) = 2

\* C15: an input that was classified and answered is in the transcript as
\* a turn of role user, among the turns the iteration added.
C15_UserTurnRecorded ==
    (/\ ChatDone /\ ~iter.raised
     /\ iter.class \in {"TOOL_USE", "CODE", "CONVERSATION"}) =>
        \E i \in (Len(iter.before) + 1)..Len(chat_history) :
            chat_history[i].role = "user"

\* C16: both temperatures, in hundredths, are within [0.1, 1.0] in every
\* reachable state.
C16_TemperaturesInRange ==
    /\ 10 <= TEMPERATURE_CONVERSATION /\ TEMPERATURE_CONVERSATION <= 100
    /\ 10 <= TEMPERATURE_SEARCH /\ TEMPERATURE_SEARCH <= 100

\* C16, witness: a confirmed update took 1.0 for the first parameter and
\* met a line that is no number for the second.
C16_Witness ==
    /\ iter.handler = "manage_settings" /\ iter.done /\ iter.prompts = 2
    /\ "invalid_input" \in iter.msgs
    /\ TEMPERATURE_CONVERSATION = 100
    /\ TEMPERATURE_SEARCH = StartTemperature

\* C17: within one call the k-th sleep lasts 2^(k-1) seconds and comes
\* between two attempts: a call given up after its third failed attempt has
\* slept twice, 1 s and 2 s, and not after the third.
C17_NoDelayAfterLastAttempt ==
    /\ \A k \in DOMAIN send.delays : send.delays[k] = Pow2(k - 1)
    /\ send.status = "running" => Len(send.delays) = Len(send.log)
    /\ send.status \in {"ok", "unexpected", "unreachable"} =>
           Len(send.delays) = Len(send.log) - 1

IsPrefix(a, b) == Len(a) <= Len(b) /\ SubSeq(b, 1, Len(a)) = a

\* C18: every step but the confirmed clear history leaves the transcript a
\* prefix of the new one, and an iteration of the loop adds at most two
\* turns to the transcript it started with.
C18_AppendOnly ==
    /\ [][ ~(pc = "_clear_history" /\ iter'.answer = "yes") =>
               IsPrefix(chat_history, chat_history') ]_vars
    /\ [](iter.handler \notin {"<none>", "<cancelled>", "_clear_history"} =>
               /\ IsPrefix(iter.before, chat_history)
               /\ Len(chat_history) <= Len(iter.before) + 2)

\* C18, witness: a tool use has added its two turns after the system turn.
C18_Witness ==
    /\ ChatDone /\ iter.class = "TOOL_USE"
    /\ iter.before = << SystemTurn >>
    /\ Len(chat_history) = Len(iter.before) + 2
    /\ IsPrefix(iter.before, chat_history)

\* C19: the retained fragment changes only in the step that ends an
\* iteration classified CODE; run code, like every other command, and every
\* other iteration leave it alone.
C19_PendingCodeFrame ==
    [][ last_generated_code' # last_generated_code =>
            /\ pc = "direct" /\ action = "CODE"
            /\ iter'.class = "CODE" ]_vars

\* C19, witness: run code has executed the fragment and it is still retained.
C19_Witness ==
    /\ iter.handler = "_run_last_code" /\ iter.done
    /\ "code_output" \in iter.msgs
    /\ last_generated_code # None
    /\ last_generated_code = iter.code_before

\* C20: every turn of the transcript has a text as its content; no turn
\* holds the None of a request that failed.
C20_EveryTurnHasText ==
    \A i \in DOMAIN chat_history : chat_history[i].content # None

====
